---- MODULE Spec2Model ----
(***************************************************************************)
(* One run of dashboard.py: the three select boxes hold a selection, the   *)
(* top-level dispatch picks a view, and show_dashboard loads the CSV files *)
(* of one category folder, filters them by team and renders its sections   *)
(* top to bottom.  Every section is one step; a step whose pandas          *)
(* expression raises (KeyError, UnboundLocalError, AttributeError) ends    *)
(* the run in pc = "raised".                                               *)
(*                                                                         *)
(* Values.  A CSV cell is an integer, a string, or missing.  A missing     *)
(* cell of a numeric column is NaN, of a text column NaS; the text of the  *)
(* "teams" column and of a team name is a tuple of characters, so that     *)
(* containment is computed, and the missing/empty text is <<>>.            *)
(***************************************************************************)
EXTENDS Integers, Sequences, FiniteSets, TLC

NaN == -1
NaS == "NaN"
NoText == <<>>

\* ---------------------------------------------------------------- bounds
MaxBallRows == 3
MaxMatchRows == 2
MaxPlayers == 2
MaxBoardPlayers == 11
MaxOdd == 2

\* ------------------------------------------------------ program constants
TopN == 10
MarginPreview == 20

SUBFOLDERS ==
    [all_json |-> "All International Matches",
     ipl_json |-> "IPL Matches",
     mdms_json |-> "Multiday Matches",
     odis_json |-> "ODI Matches",
     t20s_json |-> "T20 International Matches",
     tests_json |-> "Test Matches"]

RunsIndex == <<0, 1, 2, 3, 4, 6>>

MarginCols == <<"outcome.winner", "outcome.by.wickets", "outcome.by.runs", "outcome.result">>

\* ------------------------------------------------------------ data frames
NumericCols == {"match_id", "runs_batter", "runs_total", "runs_extras",
                "outcome.by.wickets", "outcome.by.runs"}

NullOf(col) == IF col \in NumericCols THEN NaN ELSE NaS

Min(a, b) == IF a < b THEN a ELSE b

Range(s) == {s[i] : i \in 1..Len(s)}

\* pd.DataFrame(): no columns, no rows.
EmptyDataFrame == [cols |-> {}, rows |-> <<>>]

NoFile == [exists |-> FALSE, cols |-> {}, rows |-> <<>>]

File(cols, rows) == [exists |-> TRUE, cols |-> cols, rows |-> rows]

\* A CSV file that holds the columns `cols` of the full rows `full`.
Project(full, cols) == [i \in 1..Len(full) |-> [c \in cols |-> full[i][c]]]

load_csv(file) ==
    IF file.exists THEN [cols |-> file.cols, rows |-> file.rows]
    ELSE EmptyDataFrame

\* DataFrame.empty: any axis of length 0.
empty(df) == df.cols = {} \/ Len(df.rows) = 0

HasCol(df, col) == col \in df.cols

\* df[df["match_id"].isin(ids)]
isin(df, ids) ==
    [cols |-> df.cols,
     rows |-> SelectSeq(df.rows, LAMBDA r : r["match_id"] \in ids)]

\* re.search(pat, s) for a pattern of literal characters and ".", which
\* matches any one character (Series.str.contains has regex=True).
RegexSearch(pat, s) ==
    \E i \in 0..(Len(s) - Len(pat)) :
        \A j \in 1..Len(pat) : pat[j] = "." \/ pat[j] = s[i + j]

\* Series.str.contains(team, na=False) on one cell.
str_contains(cell, pat) == IF cell = NoText THEN FALSE ELSE RegexSearch(pat, cell)

\* The .str accessor needs an object column: a column with rows and no text
\* at all is read as float64 and the accessor raises AttributeError.
StrAccessorFails(df, col) ==
    Len(df.rows) > 0 /\ \A i \in 1..Len(df.rows) : df.rows[i][col] = NoText

\* Series.value_counts(): distinct non-missing values with their counts.
value_counts(df, col) ==
    LET vals == {df.rows[i][col] : i \in 1..Len(df.rows)} \ {NullOf(col)}
    IN  [v \in vals |-> Cardinality({i \in 1..Len(df.rows) : df.rows[i][col] = v})]

\* Mutant of reindex: the values that never occur are left out instead of
\* being filled with 0.
reindex_nofill(counts, index) ==
    LET present == SelectSeq(index, LAMBDA v : v \in DOMAIN counts)
    IN  [k \in 1..Len(present) |-> [runs_batter |-> present[k], count |-> counts[present[k]]]]

\* .reindex([0,1,2,3,4,6], fill_value=0).reset_index()
reindex(counts, index) ==
    [k \in 1..Len(index) |->
        [runs_batter |-> index[k],
         count |-> IF index[k] \in DOMAIN counts THEN counts[index[k]] ELSE 0]]

RECURSIVE SumFrom(_, _, _)
SumFrom(rows, col, i) ==
    IF i > Len(rows) THEN 0
    ELSE (IF rows[i][col] = NaN THEN 0 ELSE rows[i][col]) + SumFrom(rows, col, i + 1)

\* Series.sum(): missing values are skipped, the sum of nothing is 0.
sum(df, col) == SumFrom(df.rows, col, 1)

\* Series.notna().sum()
notna_sum(df, col) ==
    Cardinality({i \in 1..Len(df.rows) : df.rows[i][col] # NullOf(col)})

\* (Series == value).sum()
eq_sum(df, col, value) ==
    Cardinality({i \in 1..Len(df.rows) : df.rows[i][col] = value})


\* ------------------------------------------------------------ sample data
BallCols == {"match_id", "runs_batter", "wicket_type", "extras_type",
             "runs_total", "runs_extras"}
InfoCols == {"match_id", "toss_winner", "toss_decision"}
MatchCols == {"match_id", "teams", "player_of_match", "outcome.winner",
              "outcome.by.wickets", "outcome.by.runs", "outcome.result"}
BatterCols == {"match_id", "runs_batter"}
BowlerCols == {"match_id", "wicket_type"}
FielderCols == {"match_id", "wicket_type"}

BallRow(m, rb, wt, et, rt, re) ==
    [match_id |-> m, runs_batter |-> rb, wicket_type |-> wt, extras_type |-> et,
     runs_total |-> rt, runs_extras |-> re]

BallSamples ==
    {BallRow(1, 4, NaS, NaS, 4, 0),
     BallRow(1, 0, "caught", NaS, 0, 0),
     BallRow(2, 6, NaS, NaS, 6, 0),
     BallRow(2, 5, "run out", "wides", 6, 1)}

BallFull ==
    <<BallRow(1, 4, NaS, NaS, 4, 0), BallRow(1, 0, "caught", NaS, 0, 0),
      BallRow(2, 6, NaS, NaS, 6, 0)>>

TeamA == <<"A">>
TeamB == <<"B">>
TeamAdot == <<"A", ".">>
AllTeams == <<TeamA, TeamB, TeamAdot>>

MatchRow(m, t, pom, w, bw, br, res) ==
    ("match_id" :> m) @@ ("teams" :> t) @@ ("player_of_match" :> pom) @@
    ("outcome.winner" :> w) @@ ("outcome.by.wickets" :> bw) @@
    ("outcome.by.runs" :> br) @@ ("outcome.result" :> res)

MatchSamples ==
    {MatchRow(1, <<"A", "v", "B">>, "p1", "A", 3, NaN, NaS),
     MatchRow(2, <<"C", "v", "B">>, "p2", "B", NaN, 10, NaS),
     MatchRow(3, NoText, NaS, NaS, NaN, NaN, NaS)}

MatchFull ==
    <<MatchRow(1, <<"A", "v", "B">>, "p1", "A", 3, NaN, NaS),
      MatchRow(2, <<"C", "v", "B">>, "p2", "B", NaN, 10, NaS)>>

InfoFull ==
    <<[match_id |-> 1, toss_winner |-> "A", toss_decision |-> "bat"],
      [match_id |-> 2, toss_winner |-> "B", toss_decision |-> "field"]>>

Bat(m, r) == [match_id |-> m, runs_batter |-> r]
Wkt(m, w) == [match_id |-> m, wicket_type |-> w]

\* A player directory: its optional batter.csv, bowler.csv and fielder.csv.
Player(bat, bowl, fld) == [batter |-> bat, bowler |-> bowl, fielder |-> fld]

ProfNone == Player(NoFile, NoFile, NoFile)
ProfA ==
    Player(File(BatterCols, <<Bat(1, 4)>>),
           File(BowlerCols, <<Wkt(1, "bowled"), Wkt(2, "lbw")>>),
           File(FielderCols, <<Wkt(1, "caught")>>))
ProfB ==
    Player(File(BatterCols, <<Bat(1, 1), Bat(2, 6), Bat(2, NaN)>>),
           File(BowlerCols, <<Wkt(2, NaS), Wkt(2, "bowled")>>),
           File(FielderCols, <<Wkt(2, "run out"), Wkt(2, "caught"), Wkt(1, "stumped")>>))
ProfBat == Player(File(BatterCols, <<Bat(2, 2)>>), NoFile, NoFile)
ProfBad ==
    Player(File({"match_id"}, <<[match_id |-> 1]>>),
           File({"wicket_type"}, <<[wicket_type |-> "bowled"]>>),
           NoFile)

Profiles == {ProfNone, ProfA, ProfB, ProfBat, ProfBad}
BoardProfiles == {ProfA, ProfB}

SeqsUpTo(S, n) == UNION {[1..k -> S] : k \in 0..n}

PlayerDir(entries) == [exists |-> TRUE, entries |-> entries]
NoDir == [exists |-> FALSE, entries |-> <<>>]

\* The files of one category folder under BASE_PATH.
Folder(ball, info, matches, pdir, teams) ==
    [ball |-> ball, info |-> info, matches |-> matches,
     player_dir |-> pdir, team_dirs |-> teams]

FullFolder ==
    Folder(File(BallCols, BallFull), File(InfoCols, InfoFull),
           File(MatchCols, MatchFull), PlayerDir(<<ProfA, ProfB>>), AllTeams)

\* --------------------------------------------------------------- locator
get_teams(f) == f.team_dirs

\* The player directories, named by their position in the listing.
get_players(f) ==
    IF f.player_dir.exists THEN [i \in 1..Len(f.player_dir.entries) |-> i] ELSE <<>>

\* The options of the three select boxes: "" first, the category's teams
\* and players only once a category is chosen.  No player is 0.
MatchTypeOptions == {""} \cup DOMAIN SUBFOLDERS
TeamOptions(f, mt) == {NoText} \cup (IF mt # "" THEN Range(get_teams(f)) ELSE {})
PlayerOptions(f, mt) == {0} \cup (IF mt # "" THEN Range(get_players(f)) ELSE {})

Selections(f) ==
    {s \in [match_type : MatchTypeOptions, team : {NoText} \cup Range(AllTeams),
            player : 0..Len(f.player_dir.entries)] :
        s.team \in TeamOptions(f, s.match_type) /\ s.player \in PlayerOptions(f, s.match_type)}

\* ------------------------------------------------------------- the inputs
Input(f, mt, t, p) == [fs |-> f, match_type |-> mt, team |-> t, player |-> p]

\* Every file present with every column; the ball events vary.
InputsBallRows ==
    {Input([FullFolder EXCEPT !.ball = File(BallCols, rows)], "ipl_json", t, 0) :
        rows \in SeqsUpTo(BallSamples, MaxBallRows), t \in {NoText} \cup Range(AllTeams)}

\* The matches vary.
InputsMatchRows ==
    {Input([FullFolder EXCEPT !.matches = File(MatchCols, rows)], "ipl_json", t, 0) :
        rows \in SeqsUpTo(MatchSamples, MaxMatchRows), t \in {NoText} \cup Range(AllTeams)}

\* Each file is absent, holds its header alone, or holds the sample rows.
Absent(cols, rows) == {NoFile, File(cols, <<>>), File(cols, rows)}

InputsFiles ==
    {Input(Folder(b, i, m, d, AllTeams), "ipl_json", t, 0) :
        b \in Absent(BallCols, BallFull), i \in Absent(InfoCols, InfoFull),
        m \in Absent(MatchCols, MatchFull),
        d \in {NoDir} \cup {PlayerDir(e) : e \in SeqsUpTo(Profiles, MaxPlayers)},
        t \in {NoText, TeamA}}

\* One table at a time holds only some of its columns.
SomeCols(all) == (SUBSET all) \ {{}}

InputsColumns ==
    LET F == FullFolder
        B == {[F EXCEPT !.ball = File(c, Project(BallFull, c))] : c \in SomeCols(BallCols)}
        I == {[F EXCEPT !.info = File(c, Project(InfoFull, c))] : c \in SomeCols(InfoCols)}
        M == {[F EXCEPT !.matches = File(c, Project(MatchFull, c))] : c \in SomeCols(MatchCols)}
    IN  {Input(f, "ipl_json", t, 0) : f \in B \cup I \cup M, t \in {NoText, TeamA}}

\* More player directories than a leaderboard has rows; all but a few of the
\* players have the same records.
Count(e, prof) == Cardinality({i \in DOMAIN e : e[i] = prof})

InputsBoard ==
    {Input([FullFolder EXCEPT !.player_dir = PlayerDir(e)], "ipl_json", NoText, 0) :
        e \in {g \in UNION {[1..n -> BoardProfiles] : n \in (TopN + 1)..MaxBoardPlayers} :
                 Count(g, ProfA) <= MaxOdd \/ Count(g, ProfB) <= MaxOdd}}

\* Every selection the select boxes allow, with and without team directories.
InputsSelection ==
    UNION {{Input(f, s.match_type, s.team, s.player) : s \in Selections(f)} :
             f \in {FullFolder, [FullFolder EXCEPT !.team_dirs = <<>>]}}

Inputs ==
    InputsBallRows \cup InputsMatchRows \cup InputsFiles \cup InputsColumns
    \cup InputsBoard \cup InputsSelection


\* ------------------------------------------------------------------ state
VARIABLES
    fs,                 \* the files of the category folder the run reads
    match_type, team, player,   \* the values of the three select boxes
    pc,                 \* the next statement of the script
    view,               \* the branch the dispatch took
    folder, sd_team,    \* show_dashboard's parameters folder and team
    ball_df, info_df, matches_df,
    valid_match_ids,    \* [bound, ids]: the local is unbound until line 46 runs
    consulted,          \* valid_match_ids has been read after line 49
    used,               \* the player frames handed to the leaderboards
    out,                \* the elements rendered so far, in order
    err,                \* [kind, at]: the exception that ended the run and its step
    runs_counts, wk_counts, ex_counts, totals,
    run_df, wk_df, fld_df,
    toss_counts, toss_decision_counts, pom_counts, win_counts, margin_df

inputs == <<fs, match_type, team, player>>
frames == <<ball_df, info_df, matches_df, valid_match_ids>>
ballAggs == <<runs_counts, wk_counts, ex_counts, totals>>
boards == <<run_df, wk_df, fld_df, used, consulted>>
matchAggs == <<toss_counts, toss_decision_counts, pom_counts, win_counts, margin_df>>
call == <<view, folder, sd_team>>
vars == <<inputs, pc, call, frames, ballAggs, boards, matchAggs, out, err>>

NoError == [kind |-> "", at |-> ""]

Unbound == [bound |-> FALSE, ids |-> {}]
Bound(ids) == [bound |-> TRUE, ids |-> ids]

Init ==
    /\ \E inp \in Inputs :
        /\ fs = inp.fs
        /\ match_type = inp.match_type
        /\ team = inp.team
        /\ player = inp.player
    /\ pc = "dispatch"
    /\ view = "none"
    /\ folder = ""
    /\ sd_team = NoText
    /\ ball_df = EmptyDataFrame
    /\ info_df = EmptyDataFrame
    /\ matches_df = EmptyDataFrame
    /\ valid_match_ids = Unbound
    /\ consulted = FALSE
    /\ used = [batter |-> <<>>, bowler |-> <<>>, fielder |-> <<>>]
    /\ out = <<"title">>
    /\ err = NoError
    /\ runs_counts = <<>>
    /\ wk_counts = <<>>
    /\ ex_counts = <<>>
    /\ totals = <<>>
    /\ run_df = <<>>
    /\ wk_df = <<>>
    /\ fld_df = <<>>
    /\ toss_counts = <<>>
    /\ toss_decision_counts = <<>>
    /\ pom_counts = <<>>
    /\ win_counts = <<>>
    /\ margin_df = <<>>

\* An exception leaves the script: what was rendered stays, nothing follows.
Raise(kind, rendered) ==
    /\ pc' = "raised"
    /\ err' = [kind |-> kind, at |-> pc]
    /\ out' = out \o rendered

\* ------------------------------------------------------ top-level dispatch
\* The branch of the if/elif chain a selection takes, "none" when no
\* condition holds.
Branch(mt, t, p) ==
    IF mt = "" /\ t = NoText /\ p = 0 THEN "default"
    ELSE IF mt # "" /\ t = NoText /\ p = 0 THEN "category"
    ELSE IF mt # "" /\ t # NoText /\ p = 0 THEN "team"
    ELSE IF mt # "" /\ t # NoText /\ p # 0 THEN "player"
    ELSE "none"

Dispatch ==
    /\ pc = "dispatch"
    /\ view' = Branch(match_type, team, player)
    /\ folder' = IF view' = "default" THEN "all_json"
                 ELSE IF view' \in {"category", "team"} THEN match_type ELSE ""
    /\ sd_team' = IF view' = "team" THEN team ELSE NoText
    /\ pc' = IF view' \in {"default", "category", "team"} THEN "load" ELSE "done"
    /\ out' = IF view' = "player" THEN out \o <<"header: Player Analysis", "info">> ELSE out
    /\ UNCHANGED <<inputs, frames, ballAggs, boards, matchAggs, err>>

\* ---------------------------------------------------------- show_dashboard
Load ==
    /\ pc = "load"
    /\ out' = Append(out, "header")
    /\ ball_df' = load_csv(fs.ball)
    /\ info_df' = load_csv(fs.info)
    /\ matches_df' = load_csv(fs.matches)
    /\ pc' = "filter"
    /\ UNCHANGED <<inputs, call, valid_match_ids, ballAggs, boards, matchAggs, err>>

\* matches_df[matches_df["teams"].str.contains(team, na=False)]["match_id"].unique()
TeamMatchIds(df, t) ==
    {df.rows[i]["match_id"] : i \in {j \in 1..Len(df.rows) : str_contains(df.rows[j]["teams"], t)}}

\* The exception lines 45-49 raise, "" when they run through.
FilterError ==
    IF ~HasCol(matches_df, "teams") THEN "KeyError"
    ELSE IF StrAccessorFails(matches_df, "teams") THEN "AttributeError"
    ELSE IF ~HasCol(matches_df, "match_id") THEN "KeyError"
    ELSE IF ~HasCol(ball_df, "match_id") THEN "KeyError"
    ELSE IF ~HasCol(info_df, "match_id") THEN "KeyError"
    ELSE ""

\* Mutant of Filters: the filter runs whether or not a team is selected.
Filters_IgnoringTeam == ~empty(matches_df)

\* The condition of line 44.
Filters == sd_team # NoText /\ ~empty(matches_df)

FilterByTeam ==
    /\ pc = "filter"
    /\ IF Filters /\ FilterError # ""
         THEN /\ Raise(FilterError, <<>>)
              /\ UNCHANGED frames
         ELSE /\ IF Filters
                   THEN LET ids == TeamMatchIds(matches_df, sd_team)
                        IN  /\ valid_match_ids' = Bound(ids)
                            /\ ball_df' = isin(ball_df, ids)
                            /\ info_df' = isin(info_df, ids)
                            /\ matches_df' = isin(matches_df, ids)
                   ELSE UNCHANGED frames
              /\ pc' = "check"
              /\ UNCHANGED <<out, err>>
    /\ UNCHANGED <<inputs, call, ballAggs, boards, matchAggs>>

\* Mutant of CheckEmpty: the warning is rendered but the return is missing.
CheckEmpty_NoReturn ==
    /\ pc = "check"
    /\ out' = IF empty(ball_df) THEN Append(out, "warning") ELSE out
    /\ pc' = "runs"
    /\ UNCHANGED <<inputs, call, frames, ballAggs, boards, matchAggs, err>>

CheckEmpty ==
    /\ pc = "check"
    /\ IF empty(ball_df)
         THEN /\ out' = Append(out, "warning")
              /\ pc' = "returned"
         ELSE /\ pc' = "runs"
              /\ UNCHANGED out
    /\ UNCHANGED <<inputs, call, frames, ballAggs, boards, matchAggs, err>>

RunsDistribution ==
    /\ pc = "runs"
    /\ IF ~HasCol(ball_df, "runs_batter")
         THEN /\ Raise("KeyError", <<"subheader: Runs Distribution">>)
              /\ UNCHANGED runs_counts
         ELSE /\ runs_counts' = reindex(value_counts(ball_df, "runs_batter"), RunsIndex)
              /\ out' = out \o <<"subheader: Runs Distribution", "chart: runs_counts",
                                 "table: runs_counts">>
              /\ pc' = "wickets"
              /\ UNCHANGED err
    /\ UNCHANGED <<inputs, call, frames, wk_counts, ex_counts, totals, boards, matchAggs>>

WicketTypes ==
    /\ pc = "wickets"
    /\ IF ~HasCol(ball_df, "wicket_type")
         THEN /\ Raise("KeyError", <<"subheader: Wicket Types">>)
              /\ UNCHANGED wk_counts
         ELSE /\ wk_counts' = value_counts(ball_df, "wicket_type")
              /\ out' = out \o <<"subheader: Wicket Types", "chart: wk_counts", "table: wk_counts">>
              /\ pc' = "extras"
              /\ UNCHANGED err
    /\ UNCHANGED <<inputs, call, frames, runs_counts, ex_counts, totals, boards, matchAggs>>

ExtrasTypes ==
    /\ pc = "extras"
    /\ IF ~HasCol(ball_df, "extras_type")
         THEN /\ Raise("KeyError", <<"subheader: Extras Types">>)
              /\ UNCHANGED ex_counts
         ELSE /\ ex_counts' = value_counts(ball_df, "extras_type")
              /\ out' = out \o <<"subheader: Extras Types", "chart: ex_counts", "table: ex_counts">>
              /\ pc' = "totals"
              /\ UNCHANGED err
    /\ UNCHANGED <<inputs, call, frames, runs_counts, wk_counts, totals, boards, matchAggs>>

Totals ==
    /\ pc = "totals"
    /\ IF ~HasCol(ball_df, "runs_total") \/ ~HasCol(ball_df, "wicket_type")
          \/ ~HasCol(ball_df, "runs_extras")
         THEN /\ Raise("KeyError", <<"subheader: Totals">>)
              /\ UNCHANGED totals
         ELSE /\ totals' = [runs |-> sum(ball_df, "runs_total"),
                            wickets |-> notna_sum(ball_df, "wicket_type"),
                            extras |-> sum(ball_df, "runs_extras"),
                            balls |-> Len(ball_df.rows)]
              /\ out' = out \o <<"subheader: Totals", "table: totals">>
              /\ pc' = "scorers"
              /\ UNCHANGED err
    /\ UNCHANGED <<inputs, call, frames, runs_counts, wk_counts, ex_counts, boards, matchAggs>>


\* ------------------------------------------------------------ leaderboards
\* os.listdir(player_dir) when the directory exists, nothing otherwise.
Listing == IF fs.player_dir.exists THEN fs.player_dir.entries ELSE <<>>

\* The exception one player's record file raises in the loop body: the
\* team filter reads df["match_id"], then valid_match_ids, and the metric
\* reads df[col].
PlayerError(file, col) ==
    IF ~file.exists THEN ""
    ELSE IF sd_team # NoText /\ ~HasCol(load_csv(file), "match_id") THEN "KeyError"
    ELSE IF sd_team # NoText /\ ~valid_match_ids.bound THEN "UnboundLocalError"
    ELSE IF ~HasCol(load_csv(file), col) THEN "KeyError"
    ELSE ""

\* if team: df = df[df["match_id"].isin(valid_match_ids)]
PlayerFrame(file) ==
    IF sd_team # NoText THEN isin(load_csv(file), valid_match_ids.ids) ELSE load_csv(file)

\* The first exception of the loop over the listing, "" when it runs through.
LoopError(kind, col) ==
    LET bad == {i \in 1..Len(Listing) : PlayerError(Listing[i][kind], col) # ""}
    IN  IF bad = {} THEN ""
        ELSE PlayerError(Listing[CHOOSE i \in bad : \A j \in bad : i <= j][kind], col)

\* The loop reads valid_match_ids at the first player that has the file and
\* a match_id column, unless an earlier player raised.
LoopConsults(kind, col) ==
    /\ sd_team # NoText
    /\ \E i \in 1..Len(Listing) :
        /\ Listing[i][kind].exists
        /\ HasCol(load_csv(Listing[i][kind]), "match_id")
        /\ \A j \in 1..(i - 1) : PlayerError(Listing[j][kind], col) = ""

\* The players that have the record file, in listing order, each with the
\* frame its metric is computed from.
LoopFrames(kind) ==
    LET idx == SelectSeq([i \in 1..Len(Listing) |-> i], LAMBDA i : Listing[i][kind].exists)
    IN  [k \in 1..Len(idx) |-> [player |-> idx[k], df |-> PlayerFrame(Listing[idx[k]][kind])]]

\* sort_values(col, ascending=False): quicksort is not stable, so rows with
\* equal keys come in listing order or in its reverse.
TieOrders == {"listing", "reverse"}

\* Mutant of sort_values: ascending=False is missing.
sort_values_ascending(rows, col, tie) ==
    LET n == Len(rows)
        Before(i, j) ==
            \/ rows[i][col] < rows[j][col]
            \/ rows[i][col] = rows[j][col] /\ (IF tie = "listing" THEN i < j ELSE i > j)
        Pos(i) == 1 + Cardinality({j \in 1..n : Before(j, i)})
    IN  [k \in 1..n |-> rows[CHOOSE i \in 1..n : Pos(i) = k]]

sort_values(rows, col, tie) ==
    LET n == Len(rows)
        Before(i, j) ==
            \/ rows[i][col] > rows[j][col]
            \/ rows[i][col] = rows[j][col] /\ (IF tie = "listing" THEN i < j ELSE i > j)
        Pos(i) == 1 + Cardinality({j \in 1..n : Before(j, i)})
    IN  [k \in 1..n |-> rows[CHOOSE i \in 1..n : Pos(i) = k]]

head(rows, n) == SubSeq(rows, 1, Min(n, Len(rows)))

run_data(fr) == [k \in 1..Len(fr) |-> [player |-> fr[k].player, runs |-> sum(fr[k].df, "runs_batter")]]

wk_data(fr) ==
    [k \in 1..Len(fr) |-> [player |-> fr[k].player, wickets |-> notna_sum(fr[k].df, "wicket_type")]]

fld_data(fr) ==
    [k \in 1..Len(fr) |->
        LET catches == eq_sum(fr[k].df, "wicket_type", "caught")
            runouts == eq_sum(fr[k].df, "wicket_type", "run out")
        IN  [player |-> fr[k].player, total |-> catches + runouts,
             catches |-> catches, runouts |-> runouts]]

TopScorers ==
    /\ pc = "scorers"
    /\ consulted' = (consulted \/ LoopConsults("batter", "runs_batter"))
    /\ IF LoopError("batter", "runs_batter") # ""
         THEN /\ Raise(LoopError("batter", "runs_batter"), <<"subheader: Top 10 Run Scorers">>)
              /\ UNCHANGED <<run_df, used>>
         ELSE /\ \E tie \in TieOrders :
                    run_df' = head(sort_values(run_data(LoopFrames("batter")), "runs", tie), TopN)
              /\ used' = [used EXCEPT !.batter = LoopFrames("batter")]
              /\ out' = out \o <<"subheader: Top 10 Run Scorers", "chart: run_df">>
              /\ pc' = "takers"
              /\ UNCHANGED err
    /\ UNCHANGED <<inputs, call, frames, ballAggs, wk_df, fld_df, matchAggs>>

TopWicketTakers ==
    /\ pc = "takers"
    /\ consulted' = (consulted \/ LoopConsults("bowler", "wicket_type"))
    /\ IF LoopError("bowler", "wicket_type") # ""
         THEN /\ Raise(LoopError("bowler", "wicket_type"), <<"subheader: Top 10 Wicket Takers">>)
              /\ UNCHANGED <<wk_df, used>>
         ELSE /\ \E tie \in TieOrders :
                    wk_df' = head(sort_values(wk_data(LoopFrames("bowler")), "wickets", tie), TopN)
              /\ used' = [used EXCEPT !.bowler = LoopFrames("bowler")]
              /\ out' = out \o <<"subheader: Top 10 Wicket Takers", "chart: wk_df">>
              /\ pc' = "fielders"
              /\ UNCHANGED err
    /\ UNCHANGED <<inputs, call, frames, ballAggs, run_df, fld_df, matchAggs>>

TopFielders ==
    /\ pc = "fielders"
    /\ consulted' = (consulted \/ LoopConsults("fielder", "wicket_type"))
    /\ IF LoopError("fielder", "wicket_type") # ""
         THEN /\ Raise(LoopError("fielder", "wicket_type"), <<"subheader: Top 10 Fielders">>)
              /\ UNCHANGED <<fld_df, used>>
         ELSE /\ \E tie \in TieOrders :
                    fld_df' = head(sort_values(fld_data(LoopFrames("fielder")), "total", tie), TopN)
              /\ used' = [used EXCEPT !.fielder = LoopFrames("fielder")]
              /\ out' = out \o <<"subheader: Top 10 Fielders", "chart: fld_df", "table: fld_df">>
              /\ pc' = "toss"
              /\ UNCHANGED err
    /\ UNCHANGED <<inputs, call, frames, ballAggs, run_df, wk_df, matchAggs>>

\* ------------------------------------------------------ info and matches
\* groupby(["toss_winner","toss_decision"]).size(): rows with a missing key
\* belong to no group.
groupby_size(df, a, b) ==
    LET keyed == {i \in 1..Len(df.rows) : df.rows[i][a] # NullOf(a) /\ df.rows[i][b] # NullOf(b)}
        keys == {<<df.rows[i][a], df.rows[i][b]>> : i \in keyed}
    IN  [k \in keys |-> Cardinality({i \in keyed : <<df.rows[i][a], df.rows[i][b]>> = k})]

TossAnalysis ==
    /\ pc = "toss"
    /\ IF empty(info_df)
         THEN /\ pc' = "pom"
              /\ UNCHANGED <<toss_counts, toss_decision_counts, out, err>>
         ELSE IF ~HasCol(info_df, "toss_winner")
         THEN /\ Raise("KeyError", <<"subheader: Toss Wins by Team">>)
              /\ UNCHANGED <<toss_counts, toss_decision_counts>>
         ELSE /\ toss_counts' = value_counts(info_df, "toss_winner")
              /\ IF HasCol(info_df, "toss_winner") /\ HasCol(info_df, "toss_decision")
                   THEN /\ toss_decision_counts' =
                               groupby_size(info_df, "toss_winner", "toss_decision")
                        /\ out' = out \o <<"subheader: Toss Wins by Team", "chart: toss_counts",
                                           "table: toss_counts",
                                           "subheader: Toss Decision (Bat/Field) by Team",
                                           "chart: toss_decision_counts",
                                           "table: toss_decision_counts">>
                   ELSE /\ out' = out \o <<"subheader: Toss Wins by Team", "chart: toss_counts",
                                           "table: toss_counts",
                                           "subheader: Toss Decision (Bat/Field) by Team">>
                        /\ UNCHANGED toss_decision_counts
              /\ pc' = "pom"
              /\ UNCHANGED err
    /\ UNCHANGED <<inputs, call, frames, ballAggs, boards, pom_counts, win_counts, margin_df>>

PlayerOfTheMatch ==
    /\ pc = "pom"
    /\ IF ~empty(matches_df) /\ HasCol(matches_df, "player_of_match")
         THEN /\ pom_counts' = value_counts(matches_df, "player_of_match")
              /\ out' = out \o <<"subheader: Player of the Match Awards", "chart: pom_counts",
                                 "table: pom_counts">>
         ELSE UNCHANGED <<pom_counts, out>>
    /\ pc' = "winners"
    /\ UNCHANGED <<inputs, call, frames, ballAggs, boards, toss_counts, toss_decision_counts,
                   win_counts, margin_df, err>>

\* matches_df[[the four margin columns]].dropna(how="all")
dropna_all(df, cols) ==
    LET proj == [i \in 1..Len(df.rows) |-> [c \in Range(cols) |-> df.rows[i][c]]]
    IN  SelectSeq(proj, LAMBDA r : \E c \in Range(cols) : r[c] # NullOf(c))

MatchWinners ==
    /\ pc = "winners"
    /\ IF ~(~empty(matches_df) /\ HasCol(matches_df, "outcome.winner"))
         THEN /\ pc' = "done"
              /\ UNCHANGED <<win_counts, margin_df, out, err>>
         ELSE LET shown == <<"subheader: Match Winners", "chart: win_counts", "table: win_counts">>
              IN  /\ win_counts' = value_counts(matches_df, "outcome.winner")
                  /\ IF ~(HasCol(matches_df, "outcome.by.wickets")
                          \/ HasCol(matches_df, "outcome.by.runs"))
                       THEN /\ out' = out \o shown
                            /\ pc' = "done"
                            /\ UNCHANGED <<margin_df, err>>
                       ELSE IF \E c \in Range(MarginCols) : ~HasCol(matches_df, c)
                       THEN /\ Raise("KeyError", shown \o <<"subheader: Win Margins">>)
                            /\ UNCHANGED margin_df
                       ELSE /\ margin_df' = head(dropna_all(matches_df, MarginCols), MarginPreview)
                            /\ out' = out \o shown \o <<"subheader: Win Margins", "table: margin_df">>
                            /\ pc' = "done"
                            /\ UNCHANGED err
    /\ UNCHANGED <<inputs, call, frames, ballAggs, boards, toss_counts, toss_decision_counts,
                   pom_counts>>

Next ==
    \/ Dispatch
    \/ Load
    \/ FilterByTeam
    \/ CheckEmpty
    \/ RunsDistribution
    \/ WicketTypes
    \/ ExtrasTypes
    \/ Totals
    \/ TopScorers
    \/ TopWicketTakers
    \/ TopFielders
    \/ TossAnalysis
    \/ PlayerOfTheMatch
    \/ MatchWinners

Spec == Init /\ [][Next]_vars


\* ------------------------------------------------------------- properties
Steps ==
    <<"dispatch", "load", "filter", "check", "runs", "wickets", "extras", "totals",
      "scorers", "takers", "fielders", "toss", "pom", "winners", "done">>

Idx(step) == CHOOSE i \in 1..Len(Steps) : Steps[i] = step

\* The step the run stands at: the one that raised, the one after the early
\* return of line 53, or the next one to run.
Reached ==
    IF pc = "raised" THEN Idx(err.at)
    ELSE IF pc = "returned" THEN Idx("runs")
    ELSE Idx(pc)

\* show_dashboard was called and ran `step` through without an exception.
Past(step) == view \in {"default", "category", "team"} /\ Reached > Idx(step)

Shown(element) == element \in Range(out)

\* Every file that is present holds all its columns and a "teams" column of
\* text: whatever goes wrong is then due to a file that is absent.
Complete(file, cols) == file.exists => file.cols = cols

FilesWellFormed ==
    /\ Complete(fs.ball, BallCols)
    /\ Complete(fs.info, InfoCols)
    /\ Complete(fs.matches, MatchCols)
    /\ ~StrAccessorFails(load_csv(fs.matches), "teams")
    /\ \A i \in 1..Len(fs.player_dir.entries) :
        /\ Complete(fs.player_dir.entries[i].batter, BatterCols)
        /\ Complete(fs.player_dir.entries[i].bowler, BowlerCols)
        /\ Complete(fs.player_dir.entries[i].fielder, FielderCols)

SomeFileAbsent ==
    \/ ~fs.ball.exists \/ ~fs.info.exists \/ ~fs.matches.exists \/ ~fs.player_dir.exists
    \/ \E i \in 1..Len(fs.player_dir.entries) :
        \/ ~fs.player_dir.entries[i].batter.exists
        \/ ~fs.player_dir.entries[i].bowler.exists
        \/ ~fs.player_dir.entries[i].fielder.exists

\* C1: a missing source file is an empty table and never raises: with any
\* of the category's files absent (the present ones well formed) and any
\* team selection, every absent file loads as a zero-row table and
\* show_dashboard ends without an exception.
C1_MissingFileNeverRaises ==
    (FilesWellFormed /\ SomeFileAbsent) =>
        /\ pc # "raised"
        /\ Past("load") /\ ~Past("filter") =>
            /\ ~fs.ball.exists => Len(ball_df.rows) = 0
            /\ ~fs.info.exists => Len(info_df.rows) = 0
            /\ ~fs.matches.exists => Len(matches_df.rows) = 0

\* Text containment: pat occurs in s, character for character.
Substring(pat, s) ==
    \E i \in 0..(Len(s) - Len(pat)) :
        \A j \in 1..Len(pat) : pat[j] = s[i + j]

\* The match ids of the loaded matches whose teams text contains the team.
ContainsIds(t) ==
    LET m == load_csv(fs.matches)
    IN  {m.rows[i]["match_id"] :
            i \in {j \in 1..Len(m.rows) : Substring(t, m.rows[j]["teams"])}}

FramesFilteredBy(ids) ==
    \A kind \in {"batter", "bowler", "fielder"} :
        \A k \in 1..Len(used[kind]) :
            used[kind][k].df = isin(load_csv(Listing[used[kind][k].player][kind]), ids)

\* C2: with a team T selected and at least one matches row, valid_match_ids
\* is exactly the set of match_id values of the matches rows whose teams
\* text contains T, and the ball-events, info and matches tables and every
\* player frame keep exactly the rows whose match_id is in that set.
C2_FilterByContainedTeam ==
    (Past("filter") /\ sd_team # NoText /\ ~empty(load_csv(fs.matches))) =>
        /\ valid_match_ids = Bound(ContainsIds(sd_team))
        /\ ball_df = isin(load_csv(fs.ball), ContainsIds(sd_team))
        /\ info_df = isin(load_csv(fs.info), ContainsIds(sd_team))
        /\ matches_df = isin(load_csv(fs.matches), ContainsIds(sd_team))
        /\ FramesFilteredBy(ContainsIds(sd_team))

\* C3: with a team selected and an empty matches table, valid_match_ids is
\* the empty set, the ball-events and info tables and every player frame
\* become empty, and the render ends without an exception.
C3_EmptyMatchesEmptiesAll ==
    (Reached > Idx("filter") /\ view = "team" /\ empty(load_csv(fs.matches))) =>
        /\ valid_match_ids = Bound({})
        /\ empty(ball_df)
        /\ empty(info_df)
        /\ \A kind \in {"batter", "bowler", "fielder"} :
            \A k \in 1..Len(used[kind]) : empty(used[kind][k].df)
        /\ pc # "raised"

\* The three tables are present with their join columns and rows, and the
\* player files are whole: only aggregate columns may be absent.
OnlyAggregateColumnsAbsent ==
    /\ fs.ball.exists /\ fs.info.exists /\ fs.matches.exists
    /\ Len(fs.ball.rows) > 0 /\ Len(fs.info.rows) > 0 /\ Len(fs.matches.rows) > 0
    /\ "match_id" \in fs.ball.cols /\ "match_id" \in fs.info.cols
    /\ {"match_id", "teams"} \subseteq fs.matches.cols
    /\ ~StrAccessorFails(load_csv(fs.matches), "teams")
    /\ \A i \in 1..Len(fs.player_dir.entries) :
        /\ Complete(fs.player_dir.entries[i].batter, BatterCols)
        /\ Complete(fs.player_dir.entries[i].bowler, BowlerCols)
        /\ Complete(fs.player_dir.entries[i].fielder, FielderCols)

\* C4: no aggregate fails for data-shape reasons alone: whatever aggregate
\* columns the ball-events, info and matches tables hold, show_dashboard
\* ends without an exception, and an absent runs_total gives total runs 0.
C4_NoFailureForShape ==
    OnlyAggregateColumnsAbsent =>
        /\ pc # "raised"
        /\ (Past("totals") /\ ~HasCol(ball_df, "runs_total")) => totals.runs = 0

\* C5: a missing optional column leaves its section out altogether, heading
\* included: Player of the Match Awards without player_of_match, Match
\* Winners without outcome.winner, Toss Decision by Team without
\* toss_winner or toss_decision.
C5_OptionalSectionOmitted ==
    /\ Shown("subheader: Player of the Match Awards") => HasCol(matches_df, "player_of_match")
    /\ Shown("subheader: Match Winners") => HasCol(matches_df, "outcome.winner")
    /\ Shown("subheader: Toss Decision (Bat/Field) by Team") =>
        (HasCol(info_df, "toss_winner") /\ HasCol(info_df, "toss_decision"))

\* C6: whenever the ball-events table is empty once loading and filtering
\* are done, the run renders the title, the header and one warning, and
\* nothing else, and returns, whatever the info and matches tables hold.
C6_EmptyBallOnlyWarns ==
    (Past("check") /\ empty(ball_df)) =>
        /\ pc = "returned"
        /\ out = <<"title", "header", "warning">>

C6_Witness ==
    /\ pc = "returned"
    /\ sd_team # NoText
    /\ Len(fs.ball.rows) > 0
    /\ Len(fs.info.rows) > 0

\* The number of ball events whose runs_batter is v.
BallsWith(v) == Cardinality({i \in 1..Len(ball_df.rows) : ball_df.rows[i]["runs_batter"] = v})

RECURSIVE CountSum(_, _)
CountSum(counts, k) == IF k = 0 THEN 0 ELSE counts[k].count + CountSum(counts, k - 1)

\* C7: for a non-empty ball-events table the runs distribution has exactly
\* six entries, for 0,1,2,3,4,6 in that order; each count is the number of
\* rows with that runs_batter (0 when there is none, other values such as
\* 5 ignored), and the counts sum to at most the number of rows.  The
\* distribution is rendered whenever the table has a runs_batter column.
C7_RunsDistributionSixEntries ==
    /\ Past("runs") =>
        /\ ~empty(ball_df)
        /\ Len(runs_counts) = 6
        /\ \A k \in 1..6 :
            /\ runs_counts[k].runs_batter = <<0, 1, 2, 3, 4, 6>>[k]
            /\ runs_counts[k].count = BallsWith(<<0, 1, 2, 3, 4, 6>>[k])
            /\ runs_counts[k].count >= 0
        /\ CountSum(runs_counts, 6) <= Len(ball_df.rows)
    /\ (pc = "raised" /\ err.at = "runs") => ~HasCol(ball_df, "runs_batter")

C7_Witness ==
    /\ pc = "done"
    /\ Past("runs")
    /\ BallsWith(5) > 0
    /\ BallsWith(4) > 0
    /\ runs_counts[2].count = 0
    /\ CountSum(runs_counts, 6) < Len(ball_df.rows)

\* The players that have the record file of a kind.
Having(kind) == {i \in 1..Len(Listing) : Listing[i][kind].exists}

\* A leaderboard is the top ten of the per-player rows `data`: it has
\* min(10, players with the file) rows, each a row of `data` and no player
\* twice, in non-increasing order of `col`, and no row left out has more
\* than a row listed.
IsTopTen(board, data, col, kind) ==
    /\ Len(board) = Min(10, Cardinality(Having(kind)))
    /\ {data[k].player : k \in 1..Len(data)} = Having(kind)
    /\ \A k \in 1..Len(board) : board[k] \in Range(data)
    /\ \A j, k \in 1..Len(board) : j # k => board[j].player # board[k].player
    /\ \A k \in 1..(Len(board) - 1) : board[k][col] >= board[k + 1][col]
    /\ \A d \in Range(data) \ Range(board) : \A k \in 1..Len(board) : d[col] <= board[k][col]

\* C8: each of the three leaderboards (runs, wickets, catches + runouts) is
\* the top 10 of the per-player totals.
C8_LeaderboardsTopTen ==
    /\ Past("scorers") => IsTopTen(run_df, run_data(used.batter), "runs", "batter")
    /\ Past("takers") => IsTopTen(wk_df, wk_data(used.bowler), "wickets", "bowler")
    /\ Past("fielders") =>
        /\ IsTopTen(fld_df, fld_data(used.fielder), "total", "fielder")
        /\ \A k \in 1..Len(fld_df) : fld_df[k].total = fld_df[k].catches + fld_df[k].runouts

C8_Witness ==
    /\ pc = "done"
    /\ Past("fielders")
    /\ Cardinality(Having("batter")) > 10
    /\ Len(run_df) = 10
    /\ run_df[1].runs > run_df[10].runs
    /\ \E d \in Range(run_data(used.batter)) \ Range(run_df) : d.runs = run_df[10].runs

\* C9: with no team selected nothing is filtered: the three tables and
\* every player frame reach the aggregates with the rows that were loaded,
\* in the same order, and valid_match_ids is never read.
C9_NoTeamNoFilter ==
    (team = NoText /\ Past("load")) =>
        /\ ball_df = load_csv(fs.ball)
        /\ info_df = load_csv(fs.info)
        /\ matches_df = load_csv(fs.matches)
        /\ valid_match_ids = Unbound
        /\ ~consulted
        /\ \A kind \in {"batter", "bowler", "fielder"} :
            \A k \in 1..Len(used[kind]) :
                used[kind][k].df = load_csv(Listing[used[kind][k].player][kind])

C9_Witness ==
    /\ pc = "done"
    /\ team = NoText
    /\ Past("winners")
    /\ Len(ball_df.rows) > 1
    /\ Len(matches_df.rows) = 1
    /\ Len(used.batter) > 0 /\ Len(used.fielder) > 0

\* C10: every selection the select boxes allow renders exactly one view:
\* the default dashboard for no selection, the category dashboard for a
\* category alone, the team dashboard for category and team, the player
\* view for all three; no selection renders nothing.
C10_EverySelectionRendersOneView ==
    pc # "dispatch" =>
        /\ view # "none"
        /\ view = "default" <=> (match_type = "" /\ team = NoText /\ player = 0)
        /\ view = "category" <=> (match_type # "" /\ team = NoText /\ player = 0)
        /\ view = "team" <=> (match_type # "" /\ team # NoText /\ player = 0)
        /\ view = "player" <=> (match_type # "" /\ team # NoText /\ player # 0)
        /\ Shown("header") <=> (view \in {"default", "category", "team"} /\ pc # "load")
        /\ Shown("header: Player Analysis") <=> view = "player"

====
